---- MODULE Spec2Model ----
(***************************************************************************)
(* State-machine model of pbs_cache: the raw data sanitizer, the resource  *)
(* tree and its free-block aggregation, the statistics accumulators, the   *)
(* aggregation pass, the publication loop (cache_pbs_data.py) and the      *)
(* freshness check of the serving layer (api.py).                          *)
(***************************************************************************)
EXTENDS Integers, Sequences, FiniteSets, TLC

VARIABLES
    sl_input,   \* safety_loads: the text passed in, as a sequence of lines
    sl_data,    \* safety_loads: local `data`, as a sequence of lines
    sl_pc,      \* safety_loads: "loop" while in `while True`, "returned" after return
    sl_pops,    \* number of l.pop() executed so far (history counter)
    sched,      \* what the scheduler and the configuration hold during the pass
    pc,         \* position of __main__ / pbs_data_ex
    pbs_queues, \* pbs_queues["Queue"]: queue name -> declared densities
    pbs_nodes,  \* pbs_nodes["nodes"]: key -> node record
    pbs_jobs,   \* pbs_jobs["Jobs"]: key -> job record
    node_iter,  \* items of pbs_nodes["nodes"].copy() still to visit
    job_iter,   \* items of pbs_jobs["Jobs"].copy() still to visit
    node_data,  \* loop variables (vnode, node_data) of the node loop
    server_info,      \* the ServerInfo accumulator
    extra_queue_data, \* queue name -> QueueInfo accumulator
    data,       \* the document returned by pbs_data_ex
    store,      \* destination -> document held under pbs_<location>
    conn_i,     \* index into conns of the publish loop
    attempted,  \* destinations on which j.set was called, in order (history)
    now,        \* api: time.time()
    ticks,      \* api: clock steps taken so far
    cache,      \* api: site -> what the store of the serving layer holds under pbs_<site>
    api_pc,     \* api: "idle", "check" (check_expire awaits the timestamp), "decide"
                \* (it has resumed), "get" (the handler awaits the data), "done"
    api_req,    \* api: the operation being served, the site it has reached and
                \* the `timestamp` check_expire has read for it
    api_checks, \* api: what each check_expire of the request read (history)
    api_resp    \* api: the response under construction, then returned

pass_vars == <<sched, pc, pbs_queues, pbs_nodes, pbs_jobs, node_iter, job_iter,
               node_data, server_info, extra_queue_data, data, store, conn_i,
               attempted>>
sl_vars == <<sl_input, sl_data, sl_pc, sl_pops>>
api_vars == <<now, ticks, cache, api_pc, api_req, api_checks, api_resp>>
vars == <<sl_vars, pass_vars, api_vars>>

----------------------------------------------------------------------------
(* Bounds of the model *)

\* longest scheduler output, in lines, handed to safety_loads
MaxLines == 3
\* loop iterations of safety_loads observed beyond the input's line count
MaxExtraPops == 2

----------------------------------------------------------------------------
(* 1. Raw data sanitizer: safety_loads                                     *)
(*                                                                         *)
(* A text is the sequence of its lines (data.split('\n')), so the empty    *)
(* text '' is the one-line text <<"">>.  Lines are drawn from a small      *)
(* alphabet of whole-line tokens:                                          *)
(*    "{"      opens the top-level object                                  *)
(*    "}"      closes it                                                   *)
(*    "\"a\":1" one key/value pair                                         *)
(*    "x"      a structurally invalid line (the scheduler quirk)           *)
(*    ""       an empty line (whitespace for the JSON scanner)             *)

LineTokens == {"{", "}", "\"a\":1", "x"}
EmptyLine == ""

\* json.loads on the text `lines`, scanned from line i in scanner state st:
\*   st = 0 expecting a value, 1 after "{", 2 after a pair, 3 after the value.
\* Result 0 means the text parses; n > 0 is JSONDecodeError.lineno.
RECURSIVE JsonScan(_, _, _)
JsonScan(lines, i, st) ==
    IF i > Len(lines)
    THEN IF st = 3 THEN 0 ELSE Len(lines)
    ELSE LET t == lines[i] IN
         IF t = EmptyLine THEN JsonScan(lines, i + 1, st)
         ELSE IF st = 0 /\ t = "{" THEN JsonScan(lines, i + 1, 1)
         ELSE IF st = 1 /\ t = "}" THEN JsonScan(lines, i + 1, 3)
         ELSE IF st = 1 /\ t = "\"a\":1" THEN JsonScan(lines, i + 1, 2)
         ELSE IF st = 2 /\ t = "}" THEN JsonScan(lines, i + 1, 3)
         ELSE i

\* e.lineno of json.loads(data), 0 when json.loads returns
JsonErrorLine(lines) == JsonScan(lines, 1, 0)

\* l.pop(k - 1) on the list l
ListPop(l, k) == [j \in 1..(Len(l) - 1) |-> IF j < k THEN l[j] ELSE l[j + 1]]

\* '\n'.join(l): the empty list joins to the empty text, which has one empty line
JoinLines(l) == IF l = <<>> THEN <<EmptyLine>> ELSE l

\* one failed iteration of the loop: split, pop the reported line, join
RepairOnce(text) == JoinLines(ListPop(text, JsonErrorLine(text)))

\* the try branch: json.loads returned
SlReturn ==
    /\ sl_pc = "loop"
    /\ JsonErrorLine(sl_data) = 0
    /\ sl_pc' = "returned"
    /\ UNCHANGED <<sl_input, sl_data, sl_pops, pass_vars, api_vars>>

\* the except branch: drop the reported line and go round again
SlRepair ==
    /\ sl_pc = "loop"
    /\ JsonErrorLine(sl_data) # 0
    /\ sl_pops < Len(sl_input) + MaxExtraPops
    /\ sl_data' = RepairOnce(sl_data)
    /\ sl_pops' = sl_pops + 1
    /\ UNCHANGED <<sl_input, sl_pc, pass_vars, api_vars>>

RECURSIVE TextsOfLen(_)
TextsOfLen(n) ==
    IF n = 0 THEN {<<>>}
    ELSE {Append(t, c) : t \in TextsOfLen(n - 1), c \in LineTokens \cup {EmptyLine}}

InputTexts == UNION {TextsOfLen(n) : n \in 1..MaxLines}

----------------------------------------------------------------------------
(* 2. Key sanitization: trans_key                                          *)
(* A key is the sequence of its characters.                                *)

\* key.replace(a, b) for a one-character a; b = "" deletes the character
RECURSIVE StrReplace(_, _, _)
StrReplace(key, a, b) ==
    IF key = <<>> THEN <<>>
    ELSE LET rest == StrReplace(Tail(key), a, b) IN
         IF Head(key) # a THEN <<Head(key)>> \o rest
         ELSE IF b = "" THEN rest
         ELSE <<b>> \o rest

\* the module-level list `replacement`
replacement == << <<".", "_">>, <<"[", "_">>, <<"]", "">> >>

RECURSIVE TransKeyFrom(_, _)
TransKeyFrom(key, i) ==
    IF i > Len(replacement) THEN key
    ELSE TransKeyFrom(StrReplace(key, replacement[i][1], replacement[i][2]), i + 1)

trans_key(key) == TransKeyFrom(key, 1)

----------------------------------------------------------------------------
(* 3. Resource tree: DevNode                                               *)
(* A tree is a function from device paths (the sequence of child names     *)
(* from the root) to DevNode records; the children of the node at path p   *)
(* are the nodes at the paths p \o <<name>>, so `children` is keyed by     *)
(* name exactly as the dict of the source.                                 *)

DevNode(dev_type, name, full_cores, full_gpus) ==
    [type |-> dev_type, name |-> name, full_cores |-> full_cores,
     full_gpus |-> full_gpus, unused_cores |-> 0, unused_gpus |-> 0]

\* DevNode('cluster', 'root'): the capacities of the root are None and never read
RootNode == DevNode("cluster", "root", 0, 0)
RootPath == <<>>

\* paths of self.children.values() for the node at path p
ChildrenOf(tree, p) ==
    {c \in DOMAIN tree : Len(c) = Len(p) + 1 /\ SubSeq(c, 1, Len(p)) = p}

RECURSIVE SeqSum(_)
SeqSum(s) == IF s = <<>> THEN 0 ELSE Head(s) + SeqSum(Tail(s))

\* insert x into the descending sequence s
RECURSIVE InsertDesc(_, _)
InsertDesc(x, s) ==
    IF s = <<>> THEN <<x>>
    ELSE IF x >= Head(s) THEN <<x>> \o s
    ELSE <<Head(s)>> \o InsertDesc(x, Tail(s))

\* sorted([c for c in cores if c != 0], reverse=True)
RECURSIVE SortedNonZeroDesc(_)
SortedNonZeroDesc(cores) ==
    IF cores = <<>> THEN <<>>
    ELSE IF Head(cores) = 0 THEN SortedNonZeroDesc(Tail(cores))
    ELSE InsertDesc(Head(cores), SortedNonZeroDesc(Tail(cores)))

\* the test of line 78 that folds child c (blocks c_free, capacity full_cores)
\* into cores[0] of a parent of type self_type
MergesChildAlways(self_type, full_cores, c_free) ==
    full_cores # 0 /\ SeqSum(c_free) = full_cores

MergesChild(self_type, full_cores, c_free) ==
    full_cores # 0 /\ SeqSum(c_free) = full_cores /\ self_type # "cluster"

\* the value a vnode reports
LeafBlocksFiltered(node, gpu) ==
    LET v == IF gpu THEN node.unused_gpus ELSE node.unused_cores
    IN  IF v = 0 THEN <<>> ELSE <<v>>

LeafBlocks(node, gpu) ==
    <<IF gpu THEN node.unused_gpus ELSE node.unused_cores>>

\* DevNode.free_cores_group(gpu) of the node at path p; GroupLoop is the
\* for loop over the children `kids` still to visit, `cores` the list so far
RECURSIVE free_cores_group(_, _, _), GroupLoop(_, _, _, _, _)
GroupLoop(tree, p, kids, gpu, cores) ==
    IF kids = {} THEN cores
    ELSE LET c == CHOOSE k \in kids : TRUE
             c_free == free_cores_group(tree, c, gpu)
             full_cores == IF gpu THEN tree[c].full_gpus ELSE tree[c].full_cores
             next == IF MergesChild(tree[p].type, full_cores, c_free)
                     THEN <<cores[1] + full_cores>> \o Tail(cores)
                     ELSE cores \o c_free
         IN  GroupLoop(tree, p, kids \ {c}, gpu, next)

free_cores_group(tree, p, gpu) ==
    IF tree[p].type = "vnode"
    THEN LeafBlocks(tree[p], gpu)
    ELSE SortedNonZeroDesc(GroupLoop(tree, p, ChildrenOf(tree, p), gpu, <<0>>))

----------------------------------------------------------------------------
(* 4. Statistics accumulators: BaseStat, ServerInfo, QueueInfo             *)

\* collections.Counter.update(**upd): adds upd[k] to the count of every key k
CounterUpdate(counter, upd) ==
    [k \in DOMAIN counter \cup DOMAIN upd |->
        (IF k \in DOMAIN counter THEN counter[k] ELSE 0)
      + (IF k \in DOMAIN upd THEN upd[k] ELSE 0)]

BaseCounterKeys ==
    {"waiting_cores", "offline_cores", "free_cores", "using_cores", "running_jobs",
     "waiting_jobs", "free_gpus", "using_gpus", "waiting_gpus", "offline_gpus"}

\* BaseStat.__init__
BaseStat == [users |-> {}, job_size |-> <<>>,
             counter |-> [k \in BaseCounterKeys |-> 0]]

\* round(num / den, 2) in hundredths, for den # 0: the nearest hundredth, an
\* exact tie going to the even one (for |den| < 40, as in this model, an
\* exact tie is an odd multiple of 1/8, which the float quotient holds exactly)
Round2(num, den) ==
    LET n == IF den < 0 THEN 0 - 100 * num ELSE 100 * num
        d == IF den < 0 THEN 0 - den ELSE den
        q == n \div d
        r == n - q * d
    IN  IF 2 * r < d THEN q
        ELSE IF 2 * r > d THEN q + 1
        ELSE IF q % 2 = 0 THEN q ELSE q + 1

\* BaseStat.load, in hundredths
LoadDropsWaiting(counter) ==
    LET den == counter["using_cores"] + counter["free_cores"]
    IN  IF den = 0 THEN 0 ELSE Round2(counter["using_cores"], den)

load(counter) ==
    LET den == counter["using_cores"] + counter["free_cores"]
    IN  IF den = 0 THEN 0
        ELSE Round2(counter["using_cores"] + counter["waiting_cores"], den)

\* BaseStat.job_size_avg, in hundredths
job_size_avg(job_size) ==
    IF job_size = <<>> THEN 0 ELSE Round2(SeqSum(job_size), Len(job_size))

\* BaseStat.export
BaseExport(stat) ==
    [user_count |-> Cardinality(stat.users), counter |-> stat.counter,
     job_size_avg |-> job_size_avg(stat.job_size), load |-> load(stat.counter)]

\* ServerInfo.__init__
ServerInfo ==
    [BaseStat EXCEPT !.counter =
        CounterUpdate(CounterUpdate(@, "total_cores" :> 0), "total_gpus" :> 0)]

\* the free count handed to the free_cores/free_gpus counters
FreeOf(all, assigned) == all - assigned

\* ServerInfo.add_vnode
ServerAddVnode(self, all_cores, assigned_cores, all_gpus, assigned_gpus, is_offline) ==
    LET c1 == CounterUpdate(self.counter,
                  ("total_cores" :> all_cores) @@ ("total_gpus" :> all_gpus))
        c2 == IF is_offline
              THEN CounterUpdate(c1,
                       ("offline_cores" :> all_cores) @@ ("offline_gpus" :> all_gpus))
              ELSE c1
        free_cores == FreeOf(all_cores, assigned_cores)
        free_gpus == FreeOf(all_gpus, assigned_gpus)
    IN  [self EXCEPT !.counter =
            CounterUpdate(c2, ("free_cores" :> free_cores) @@ ("free_gpus" :> free_gpus))]

\* QueueInfo.__init__; vnode = 0 raises ZeroDivisionError (see QueueInitFails)
QueueInfo(queue, host, socket, vnode, gpus_vnode) ==
    [name |-> queue, users |-> {}, job_size |-> <<>>,
     counter |-> CounterUpdate(BaseStat.counter,
                    ("min_cores" :> 0) @@ ("max_cores" :> 0)
                    @@ ("min_gpus" :> 0) @@ ("max_gpus" :> 0)),
     root |-> (RootPath :> RootNode),
     full_cores_map |-> [host |-> host, socket |-> socket, vnode |-> vnode],
     full_gpus_map |-> [vnode |-> gpus_vnode,
                        socket |-> (socket * gpus_vnode) \div vnode,
                        host |-> (host * gpus_vnode) \div vnode]]

\* the device levels walked by add_vnode, in order
DevTypes == <<"ibswitch", "host", "socket", "vnode">>

\* self.full_cores_map.get(dev_type, 0)
FullOf(map, dev_type) == IF dev_type \in DOMAIN map THEN map[dev_type] ELSE 0

\* the for loop of QueueInfo.add_vnode from level i on, cur_node at path cur
RECURSIVE WalkDevices(_, _, _, _, _, _, _)
WalkDevices(self, tree, cur, i, devices, free_cores, free_gpus) ==
    IF i > Len(DevTypes) THEN tree
    ELSE LET dev_type == DevTypes[i]
             dev_name == devices[dev_type]
             p == Append(cur, dev_name)
             made == DevNode(dev_type, dev_name,
                             FullOf(self.full_cores_map, dev_type),
                             FullOf(self.full_gpus_map, dev_type))
             node == IF dev_type = "vnode"
                     THEN [made EXCEPT !.unused_cores = free_cores,
                                       !.unused_gpus = free_gpus]
                     ELSE made
         IN  IF dev_name = "" THEN
                 WalkDevices(self, tree, cur, i + 1, devices, free_cores, free_gpus)
             ELSE IF p \in DOMAIN tree THEN
                 WalkDevices(self, tree, p, i + 1, devices, free_cores, free_gpus)
             ELSE
                 WalkDevices(self, tree @@ (p :> node), p, i + 1, devices,
                             free_cores, free_gpus)

\* lines 180-181: a node is left out of the tree when it has no free core
SkipsTreeWhenNothingFree(free_cores, free_gpus) == free_cores = 0 /\ free_gpus = 0
SkipsTree(free_cores, free_gpus) == free_cores = 0

\* QueueInfo.add_vnode
QueueAddVnode(self, all_cores, assigned_cores, all_gpus, assigned_gpus, is_offline, is_private, devices) ==
    IF is_offline THEN
        LET c1 == CounterUpdate(self.counter,
                      ("offline_cores" :> all_cores) @@ ("offline_gpus" :> all_gpus))
            c2 == CounterUpdate(c1,
                      ("max_cores" :> assigned_cores) @@ ("max_gpus" :> assigned_gpus))
            c3 == IF is_private
                  THEN CounterUpdate(c2,
                      ("min_cores" :> assigned_cores) @@ ("min_gpus" :> assigned_gpus))
                  ELSE c2
        IN  [self EXCEPT !.counter = c3]
    ELSE
        LET c1 == CounterUpdate(self.counter,
                      ("max_cores" :> all_cores) @@ ("max_gpus" :> all_gpus))
            c2 == IF is_private
                  THEN CounterUpdate(c1,
                      ("min_cores" :> all_cores) @@ ("min_gpus" :> all_gpus))
                  ELSE c1
            free_cores == FreeOf(all_cores, assigned_cores)
            free_gpus == FreeOf(all_gpus, assigned_gpus)
            c3 == CounterUpdate(c2,
                      ("free_cores" :> free_cores) @@ ("free_gpus" :> free_gpus))
        IN  IF SkipsTree(free_cores, free_gpus)
            THEN [self EXCEPT !.counter = c3]
            ELSE [self EXCEPT !.counter = c3,
                              !.root = WalkDevices(self, self.root, RootPath, 1,
                                                   devices, free_cores, free_gpus)]

\* QueueInfo.export
QueueExport(self) ==
    [user_count |-> Cardinality(self.users), counter |-> self.counter,
     job_size_avg |-> job_size_avg(self.job_size), load |-> load(self.counter),
     queue |-> self.name,
     free_cores_group |-> free_cores_group(self.root, RootPath, FALSE),
     free_gpus_group |-> free_cores_group(self.root, RootPath, TRUE)]

----------------------------------------------------------------------------
(* 5. The aggregation pass: pbs_data_ex and __main__                       *)

\* safety_loads run to its end: the loop is deterministic in `data`, so an
\* iteration that leaves `data` as it was repeats forever
RECURSIVE SafetyLoads(_)
SafetyLoads(text) ==
    IF JsonErrorLine(text) = 0 THEN [hangs |-> FALSE, lines |-> text]
    ELSE IF RepairOnce(text) = text THEN [hangs |-> TRUE, lines |-> text]
    ELSE SafetyLoads(RepairOnce(text))

\* outputs of a scheduler query: well formed, with one invalid line, not JSON
WellFormed == <<"{", "\"a\":1", "}">>
RawTexts == { WellFormed, <<"{", "x", "}">>, <<"x">> }

\* the document the destinations hold before the pass, and its timestamp
PriorStamp == 1
EmptyDict == <<>>
PriorDoc == [Server |-> BaseExport(ServerInfo), Queue |-> EmptyDict,
             nodes |-> EmptyDict, Jobs |-> EmptyDict, timestamp |-> PriorStamp]
NoDoc == [unset |-> TRUE]

\* number of entries of config['redis']
NDest == 2

\* dict d with key k set to v
DictSet(d, k, v) == [x \in DOMAIN d \cup {k} |-> IF x = k THEN v ELSE d[x]]
\* dict d after d.pop(k)
DictPop(d, k) == [x \in DOMAIN d \ {k} |-> d[x]]
\* the dict built from a sequence of [key, rec] items
RECURSIVE DictOf(_)
DictOf(items) ==
    IF items = <<>> THEN EmptyDict
    ELSE DictSet(DictOf(SubSeq(items, 1, Len(items) - 1)),
                 items[Len(items)].key, items[Len(items)].rec)

\* lines 214-217: the four queries and their safety_loads; sched.raw[i] is
\* the line structure of the i-th output
Fetch ==
    /\ pc = "fetch"
    /\ IF \E i \in 1..4 : SafetyLoads(sched.raw[i]).hangs
       THEN /\ pc' = "hung"
            /\ UNCHANGED <<pbs_queues, pbs_nodes, pbs_jobs>>
       ELSE /\ pc' = "queue_init"
            /\ pbs_queues' = sched.queues
            /\ pbs_nodes' = DictOf(sched.nodes)
            /\ pbs_jobs' = DictOf(sched.jobs)
    /\ UNCHANGED <<sched, node_iter, job_iter, node_data, server_info,
                   extra_queue_data, data, store, conn_i, attempted, sl_vars, api_vars>>

\* QueueInfo.__init__ divides by the per-node core density
QueueInitFails(queues) == \E q \in DOMAIN queues : queues[q].vnode = 0

\* lines 219-230: the accumulators
QueueInit ==
    /\ pc = "queue_init"
    /\ IF QueueInitFails(pbs_queues)
       THEN /\ pc' = "aborted"
            /\ UNCHANGED <<server_info, extra_queue_data, node_iter, job_iter>>
       ELSE /\ pc' = "loops"
            /\ server_info' = ServerInfo
            /\ extra_queue_data' =
                   [q \in DOMAIN pbs_queues |->
                       QueueInfo(q, pbs_queues[q].host, pbs_queues[q].socket,
                                 pbs_queues[q].vnode, pbs_queues[q].gpus_vnode)]
            /\ node_iter' = sched.nodes
            /\ job_iter' = sched.jobs
    /\ UNCHANGED <<sched, pbs_queues, pbs_nodes, pbs_jobs, node_data, data,
                   store, conn_i, attempted, sl_vars, api_vars>>

\* lines 233-238: the queues a node record names; <<>> when it names none
QueuesOf(rec) ==
    IF rec.queue # "" THEN <<rec.queue>>
    ELSE IF rec.Qlist # <<>> THEN rec.Qlist
    ELSE <<>>

\* lines 246-247
IsOffline(rec) == rec.state \cap {"down", "offline"} # {}

\* lines 249-251: add the node to every declared queue of `queues`, from i on
RECURSIVE AddToQueues(_, _, _, _)
AddToQueues(eqd, rec, queues, i) ==
    IF i > Len(queues) THEN eqd
    ELSE LET q == queues[i] IN
         IF q \in DOMAIN eqd
         THEN AddToQueues(
                  [eqd EXCEPT ![q] =
                      QueueAddVnode(eqd[q], rec.ncpus, rec.a_ncpus, rec.ngpus,
                                    rec.a_ngpus, IsOffline(rec), Len(queues) = 1,
                                    rec.devices)],
                  rec, queues, i + 1)
         ELSE AddToQueues(eqd, rec, queues, i + 1)

\* line 252: pbs_nodes['nodes'][trans_key(vnode)] = pbs_nodes['nodes'].pop(vnode)
RenameKey(d, key) == DictSet(DictPop(d, key), trans_key(key), d[key])

\* line 248 is reached by every record that names a queue, declared or not
ServerTakesOnlyDeclared(queues, eqd) ==
    \E i \in 1..Len(queues) : queues[i] \in DOMAIN eqd
ServerTakes(queues, eqd) == queues # <<>>

\* lines 232-252: one iteration of the node loop
NodeStep ==
    /\ pc = "loops"
    /\ node_iter # <<>>
    /\ LET vnode == Head(node_iter).key
           rec == Head(node_iter).rec
           queues == QueuesOf(rec)
       IN  /\ node_data' = Head(node_iter)
           /\ node_iter' = Tail(node_iter)
           /\ server_info' =
                  IF ServerTakes(queues, extra_queue_data)
                  THEN ServerAddVnode(server_info, rec.ncpus, rec.a_ncpus,
                                      rec.ngpus, rec.a_ngpus, IsOffline(rec))
                  ELSE server_info
           /\ extra_queue_data' = AddToQueues(extra_queue_data, rec, queues, 1)
           /\ pbs_nodes' =
                  IF queues = <<>> THEN pbs_nodes ELSE RenameKey(pbs_nodes, vnode)
    /\ UNCHANGED <<sched, pc, pbs_queues, pbs_jobs, job_iter, data, store,
                   conn_i, attempted, sl_vars, api_vars>>

\* lines 263-274: the counter updates of a job in state `state`
JobCountsElseWaiting(counter, state, cores, gpus) ==
    IF state = "R"
    THEN CounterUpdate(counter, ("using_cores" :> cores) @@ ("running_jobs" :> 1)
                                @@ ("using_gpus" :> gpus))
    ELSE CounterUpdate(counter, ("waiting_cores" :> cores) @@ ("waiting_jobs" :> 1)
                                @@ ("waiting_gpus" :> gpus))

JobCounts(counter, state, cores, gpus) ==
    IF state = "R"
    THEN CounterUpdate(counter, ("using_cores" :> cores) @@ ("running_jobs" :> 1)
                                @@ ("using_gpus" :> gpus))
    ELSE IF state = "Q"
    THEN CounterUpdate(counter, ("waiting_cores" :> cores) @@ ("waiting_jobs" :> 1)
                                @@ ("waiting_gpus" :> gpus))
    ELSE counter

\* lines 263-274 on one accumulator (server_info or a QueueInfo)
JobClassify(stat, rec) ==
    IF rec.job_state = "R"
    THEN [stat EXCEPT !.counter = JobCounts(@, "R", rec.ncpus, rec.ngpus),
                      !.users = @ \cup {rec.euser},
                      !.job_size = Append(@, rec.ncpus)]
    ELSE [stat EXCEPT !.counter = JobCounts(@, rec.job_state, rec.ncpus, rec.ngpus)]

\* lines 254-276: one iteration of the job loop.  job_data['id'] = job writes
\* into the record object of the copy, which pbs_jobs['Jobs'][job] still holds
\* unless an earlier renaming has put another record (another `id0`) there.
JobStep ==
    /\ pc = "loops"
    /\ node_iter = <<>>
    /\ job_iter # <<>>
    /\ LET job == Head(job_iter).key
           job_data == [Head(job_iter).rec EXCEPT !.id = job]
           q == job_data.queue
       IN  IF q \notin DOMAIN extra_queue_data
           THEN /\ pbs_jobs' = IF pbs_jobs[job].id0 = job_data.id0
                               THEN DictSet(pbs_jobs, job, job_data)
                               ELSE pbs_jobs
                /\ UNCHANGED <<server_info, extra_queue_data>>
           ELSE /\ server_info' = JobClassify(server_info, job_data)
                /\ extra_queue_data' =
                       [extra_queue_data EXCEPT ![q] = JobClassify(@, job_data)]
                /\ pbs_jobs' = DictSet(DictPop(pbs_jobs, job), trans_key(job), job_data)
    /\ job_iter' = Tail(job_iter)
    /\ UNCHANGED <<sched, pc, pbs_queues, pbs_nodes, node_iter, node_data, data,
                   store, conn_i, attempted, sl_vars, api_vars>>

\* line 286 with the statistics of lines 277-285 attached
Document(server, eqd, queues, nodes, jobs, stamp) ==
    [Server |-> BaseExport(server),
     Queue |-> [q \in DOMAIN queues |->
                   [resources_available |-> queues[q],
                    statistics |-> QueueExport(eqd[q])]],
     nodes |-> nodes, Jobs |-> jobs, timestamp |-> stamp]

\* lines 277-286 and 302-305: the end of pbs_data_ex, and the test-mode exit
Export ==
    /\ pc = "loops"
    /\ node_iter = <<>>
    /\ job_iter = <<>>
    /\ data' = Document(server_info, extra_queue_data, pbs_queues, pbs_nodes,
                        pbs_jobs, sched.stamp)
    /\ pc' = IF sched.test THEN "exit_test" ELSE "publish"
    /\ conn_i' = 1
    /\ UNCHANGED <<sched, pbs_queues, pbs_nodes, pbs_jobs, node_iter, job_iter,
                   node_data, server_info, extra_queue_data, store, attempted,
                   sl_vars, api_vars>>

\* j.set(f'pbs_{location}', '$', data): the root of the key is replaced
WrittenMerged(old, new) == [new EXCEPT !.Jobs = old.Jobs]
Written(old, new) == new

\* the index the for loop of line 306 takes after the write to conns[i]
\* returned (ok) or raised (caught at line 312)
NextConnStopOnError(i, ok) == IF ok THEN i + 1 ELSE NDest + 1
NextConn(i, ok) == i + 1

\* lines 306-313: one iteration of the publish loop
Publish ==
    /\ pc = "publish"
    /\ conn_i <= NDest
    /\ attempted' = Append(attempted, conn_i)
    /\ store' = IF sched.redis_up[conn_i]
                THEN [store EXCEPT ![conn_i] = Written(@, data)]
                ELSE store
    /\ conn_i' = NextConn(conn_i, sched.redis_up[conn_i])
    /\ pc' = IF conn_i' > NDest THEN "done" ELSE "publish"
    /\ UNCHANGED <<sched, pbs_queues, pbs_nodes, pbs_jobs, node_iter, job_iter,
                   node_data, server_info, extra_queue_data, data, sl_vars, api_vars>>

Next == Fetch \/ QueueInit \/ NodeStep \/ JobStep \/ Export \/ Publish

----------------------------------------------------------------------------
(* 6. Inputs of a pass                                                     *)

\* most node records and job records the scheduler reports in a pass
MaxNodes == 2
MaxJobs == 1

\* queue_config of line 226: the declared densities, 0 where undeclared
Cfg(host, socket, vnode, gpus_vnode) ==
    [host |-> host, socket |-> socket, vnode |-> vnode, gpus_vnode |-> gpus_vnode]

\* `devices` of line 244; "" where the node reports no such level
Dev(ibswitch, host, socket, vnode) ==
    [ibswitch |-> ibswitch, host |-> host, socket |-> socket, vnode |-> vnode]

\* a node record: queue / Qlist are "" / <<>> where absent, Qlist is the
\* attribute already split at its commas, state the set of its words
NodeRec(queue, Qlist, ncpus, a_ncpus, ngpus, a_ngpus, state, devices) ==
    [queue |-> queue, Qlist |-> Qlist, ncpus |-> ncpus, a_ncpus |-> a_ncpus,
     ngpus |-> ngpus, a_ngpus |-> a_ngpus, state |-> state, devices |-> devices]

\* a job record; id is <<>> until line 255 sets it, id0 tells the record
\* objects apart
JobItem(key, queue, job_state, ncpus, ngpus, euser) ==
    [key |-> key,
     rec |-> [queue |-> queue, job_state |-> job_state, ncpus |-> ncpus,
              ngpus |-> ngpus, euser |-> euser, id |-> <<>>, id0 |-> key]]

\* the sequences of at most n items of Items with pairwise different keys
RECURSIVE ItemSeqs(_, _)
ItemSeqs(Items, n) ==
    IF n = 0 THEN {<<>>}
    ELSE LET S == ItemSeqs(Items, n - 1)
             full == {t \in S : Len(t) = n - 1}
         IN  S \cup {Append(px[1], px[2]) :
                       px \in {tx \in full \X Items :
                                 \A i \in 1..Len(tx[1]) : tx[1][i].key # tx[2].key}}

\* scheduler identifiers: dotted, bracketed (array/vnode index), underscored
NodeKeys == { <<"n", ".", "1">>, <<"n", "[", "1", "]">> }
JobKeys == { <<"7", "_", "s">>, <<"7", ".", "s">>, <<"7", "[", "1", "]", ".", "s">> }

\* the declared queues, and a name no queue declares
GoodCfg == Cfg(4, 2, 2, 1)
NoDensityCfg == Cfg(0, 0, 0, 0)

AllUp == [d \in 1..NDest |-> TRUE]

Scenario(queues, nodes, jobs, redis_up, test) ==
    [queues |-> queues, nodes |-> nodes, jobs |-> jobs, stamp |-> PriorStamp + 1,
     raw |-> [i \in 1..4 |-> WellFormed], redis_up |-> redis_up, test |-> test]

\* family of the default specification: identifiers and queue membership vary
MembershipNodes ==
    {[key |-> k,
      rec |-> NodeRec(m[1], m[2], 2, 1, 1, 0, {"free"}, Dev("", "h1", "", "v1"))] :
        k \in NodeKeys,
        m \in { <<"qa", <<>> >>, <<"qx", <<>> >>, <<"", <<"qa", "qx">> >>,
                <<"", <<>> >> }}

MembershipJobs ==
    {JobItem(k, q, "R", 1, 0, "u1") : k \in JobKeys, q \in {"qa", "qx"}}

MembershipScenarios ==
    {Scenario(("qa" :> GoodCfg) @@ ("qb" :> GoodCfg), ns, js, AllUp, FALSE) :
        ns \in ItemSeqs(MembershipNodes, MaxNodes),
        js \in ItemSeqs(MembershipJobs, MaxJobs)}

\* the serving layer at rest (api.py)
\* the age, in seconds, beyond which check_expire rejects a document
StaleAfter == 120

\* config['site'], in order
Sites == <<"sa", "sb">>

\* the clock starts at Epoch and advances by one of TickSteps, MaxTicks times
Epoch == 1000
MaxTicks == 2
TickSteps == {60, 61}

\* how far behind the clock of the serving layer the timestamp of a
\* scheduler output can be when its document is published
StampLags == {0, 60}

Absent == [present |-> FALSE, timestamp |-> 0]
DocAt(t) == [present |-> TRUE, timestamp |-> t]

NoResp == [result |-> TRUE, msg |-> "", sources |-> {}]

ApiIdle ==
    /\ now = Epoch
    /\ ticks = 0
    /\ cache = [i \in 1..Len(Sites) |-> Absent]
    /\ api_pc = "idle"
    /\ api_req = [op |-> "", site |-> 1, read |-> Absent]
    /\ api_checks = {}
    /\ api_resp = NoResp


NoScenario == Scenario(EmptyDict, <<>>, <<>>, AllUp, FALSE)

SlIdle ==
    /\ sl_input = <<>>
    /\ sl_data = <<>>
    /\ sl_pc = "idle"
    /\ sl_pops = 0

\* the state in which __main__ calls pbs_data_ex
PassStart ==
    /\ pc = "fetch"
    /\ pbs_queues = EmptyDict
    /\ pbs_nodes = EmptyDict
    /\ pbs_jobs = EmptyDict
    /\ node_iter = <<>>
    /\ job_iter = <<>>
    /\ node_data = <<>>
    /\ server_info = ServerInfo
    /\ extra_queue_data = EmptyDict
    /\ data = NoDoc
    /\ store = [d \in 1..NDest |-> PriorDoc]
    /\ conn_i = 1
    /\ attempted = <<>>

InitSanitize ==
    /\ sl_input \in InputTexts
    /\ sl_data = sl_input
    /\ sl_pc = "loop"
    /\ sl_pops = 0
    /\ sched = NoScenario
    /\ PassStart
    /\ ApiIdle

NextSanitize == SlReturn \/ SlRepair

SpecSanitize == InitSanitize /\ [][NextSanitize]_vars

\* decimal digits, for keys given by position
Digits == <<"1", "2", "3", "4", "5", "6">>

\* the items whose i-th key is <<prefix, Digits[i]>> and whose records are in Recs
RECURSIVE KeyedSeqs(_, _, _)
KeyedSeqs(prefix, Recs, n) ==
    IF n = 0 THEN {<<>>}
    ELSE LET S == KeyedSeqs(prefix, Recs, n - 1)
         IN  S \cup {Append(t, [key |-> <<prefix, Digits[n]>>, rec |-> r]) :
                       t \in {u \in S : Len(u) = n - 1}, r \in Recs}

WithId0(items) ==
    [i \in 1..Len(items) |-> [items[i] EXCEPT !.rec.id0 = items[i].key]]

\* family of SpecPublish: the reachability of each destination, test mode,
\* the output of one of the four queries and an undeclared per-node density
\* vary
PublishNodeRecs == {NodeRec("qa", <<>>, 2, 1, 1, 0, {"free"}, Dev("", "h1", "", "v1"))}
PublishJobRecs == {JobItem(<<>>, "qa", "R", 1, 0, "u1").rec}

RawVariants ==
    {[i \in 1..4 |-> IF i = k THEN t ELSE WellFormed] : k \in 1..4, t \in RawTexts}

PublishScenarios ==
    {[Scenario(("qa" :> c), ns, WithId0(js), up, t) EXCEPT !.raw = r] :
        c \in {GoodCfg, NoDensityCfg},
        ns \in KeyedSeqs("n", PublishNodeRecs, MaxNodes),
        js \in KeyedSeqs("j", PublishJobRecs, MaxJobs),
        up \in [1..NDest -> BOOLEAN],
        t \in BOOLEAN,
        r \in RawVariants}

InitPublish == sched \in PublishScenarios /\ PassStart /\ SlIdle /\ ApiIdle

SpecPublish == InitPublish /\ [][Next]_vars

\* family of SpecCounts: assigned and available counts, node state, queue
\* membership and job state vary; keys are plain and given by position
CountNodeRecs ==
    {NodeRec(m[1], m[2], 2, a, 1, 0, st, Dev("", "h1", "", "v1")) :
        m \in { <<"qa", <<>> >>, <<"", <<"qa", "qb">> >> },
        a \in {0, 3},
        st \in { {"free"} }}
    \cup {NodeRec("qa", <<>>, 2, 1, 1, 0, {"down", "offline"}, Dev("", "h1", "", "v1"))}

CountJobRecs ==
    {JobItem(<<>>, q, s, 1, 1, "u1").rec : q \in {"qa", "qx"}, s \in {"R", "Q", "H"}}

CountScenarios ==
    {Scenario(("qa" :> GoodCfg) @@ ("qb" :> GoodCfg), ns, WithId0(js), AllUp, FALSE) :
        ns \in KeyedSeqs("n", CountNodeRecs, MaxNodes),
        js \in KeyedSeqs("j", CountJobRecs, MaxJobs)}

InitCounts == sched \in CountScenarios /\ PassStart /\ SlIdle /\ ApiIdle

SpecCounts == InitCounts /\ [][Next]_vars

\* family of SpecTree: the device paths, the free share of each node and the
\* declared densities vary; all nodes are online and private to queue qa
MaxTreeNodes == 3

\* per scenario: the ibswitch name ("" = none), whether the nodes report a
\* numa socket, the declared densities, and the gpus (available, assigned) of
\* every node: one vnode per host with gpus free, or two vnodes per host
\* with the gpu taken
TreeShapes ==
    {[sw |-> l[1], numa |-> l[2], cfg |-> g[1], gpus |-> g[2]] :
        l \in { <<"", FALSE>>, <<"s1", FALSE>>, <<"", TRUE>> },
        g \in { <<Cfg(2, 2, 2, 1), <<1, 0>> >>, <<Cfg(4, 2, 2, 0), <<1, 1>> >> }}

TreeNodeRecs(shape) ==
    {NodeRec("qa", <<>>, 2, a, shape.gpus[1], shape.gpus[2], {"free"},
             Dev(shape.sw, d[1], IF shape.numa THEN d[3] ELSE "", d[2])) :
        d \in { <<"h1", "v1", "k1">>, <<"h1", "v2", "k2">>, <<"h2", "v1", "k1">> },
        a \in {0, 1}}

TreeScenarios ==
    UNION {{Scenario(("qa" :> shape.cfg), ns,
                     <<JobItem(<<"j", "1">>, "qa", "Q", 1, 0, "u1")>>, AllUp, FALSE) :
               ns \in KeyedSeqs("n", TreeNodeRecs(shape), MaxTreeNodes)} :
           shape \in TreeShapes}

InitTree == sched \in TreeScenarios /\ PassStart /\ SlIdle /\ ApiIdle

SpecTree == InitTree /\ [][Next]_vars

\* family of SpecE2E: queue qa has two private online hosts of 16 cores, one
\* idle and one fully used, and one queued job asking for 8 cores; the
\* declared densities, the device levels reported, the order of the records
\* and the jobs of another queue vary.  Every node reports its host and vnode.
E2ECfgs ==
    {Cfg(h, k, v, g) : h \in {0, 16, 32}, k \in {0, 16}, v \in {8, 16}, g \in {0, 1}}

E2ENode(name, assigned, sw, numa) ==
    [key |-> <<name>>,
     rec |-> NodeRec("qa", <<>>, 16, assigned, 0, 0, {"free"}, Dev(sw, name, numa, name))]

E2ENodes ==
    UNION {{ <<E2ENode("h1", 0, sw, numa), E2ENode("h2", 16, sw, numa)>>,
             <<E2ENode("h2", 16, sw, numa), E2ENode("h1", 0, sw, numa)>> } :
           sw \in {"", "s1"}, numa \in {"", "k1"}}

E2EJobs ==
    LET mine == JobItem(<<"7", ".", "s">>, "qa", "Q", 8, 0, "u1")
        other(st) == JobItem(<<"8", ".", "s">>, "qb", st, 4, 0, "u2")
    IN  { <<mine>> } \cup UNION {{ <<mine, other(st)>>, <<other(st), mine>> } :
                                   st \in {"R", "Q"}}

E2EScenarios ==
    {Scenario(("qa" :> c) @@ ("qb" :> GoodCfg), ns, js, AllUp, FALSE) :
        c \in E2ECfgs, ns \in E2ENodes, js \in E2EJobs}

InitE2E == sched \in E2EScenarios /\ PassStart /\ SlIdle /\ ApiIdle

SpecE2E == InitE2E /\ [][Next]_vars

\* family of SpecConserve: private nodes of queue qa with one gpu each; the
\* free share, the device path (two vnodes of host h1, a vnode named like
\* the host and reporting no host, a node reporting no vnode, a vnode of
\* host h2 without a free core), the node state
\* and the presence of a switch vary; one job is queued
ConserveNodeRecs(sw) ==
    {NodeRec("qa", <<>>, 2, a, 1, 0, {"free"}, Dev(sw, "h1", "", "v1")) : a \in {0, 1, 2}}
    \cup {NodeRec("qa", <<>>, 2, 0, 1, 0, {"free"}, Dev(sw, "h1", "", "v2")),
          NodeRec("qa", <<>>, 2, 0, 1, 0, {"free"}, Dev(sw, "", "", "h1")),
          NodeRec("qa", <<>>, 2, 0, 1, 0, {"free"}, Dev(sw, "h2", "", "")),
          NodeRec("qa", <<>>, 2, 2, 1, 0, {"free"}, Dev(sw, "h2", "", "v3")),
          NodeRec("qa", <<>>, 2, 0, 1, 0, {"down"}, Dev(sw, "h1", "", "v2"))}

ConserveScenarios ==
    UNION {{Scenario(("qa" :> GoodCfg), ns,
                     <<JobItem(<<"j", "1">>, "qa", "Q", 1, 0, "u1")>>, AllUp, FALSE) :
               ns \in KeyedSeqs("n", ConserveNodeRecs(sw), MaxTreeNodes)} :
           sw \in {"", "s1"}}

InitConserve == sched \in ConserveScenarios /\ PassStart /\ SlIdle /\ ApiIdle

SpecConserve == InitConserve /\ [][Next]_vars

\* family of SpecJobs: queues qa and qb are declared, qx is not; the owning
\* queue, the state and the size of up to MaxJobRecs jobs vary, with or
\* without a node in qa
MaxJobRecs == 3

JobsJobRecs ==
    {JobItem(<<>>, j[1], j[2], j[3], j[4], j[5]).rec :
        j \in { <<"qa", "R", 2, 1, "u1">>, <<"qa", "Q", 1, 0, "u1">>,
                <<"qa", "H", 1, 1, "u2">>, <<"qb", "R", 1, 0, "u2">>,
                <<"qb", "Q", 2, 1, "u1">>, <<"qx", "R", 1, 1, "u1">>,
                <<"qx", "Q", 1, 1, "u2">> }}

JobsNodes ==
    {<<>>,
     <<[key |-> <<"n", "1">>,
        rec |-> NodeRec("qa", <<>>, 2, 1, 1, 0, {"free"}, Dev("", "h1", "", "v1"))]>>}

JobsScenarios ==
    {Scenario(("qa" :> GoodCfg) @@ ("qb" :> GoodCfg), ns, WithId0(js), AllUp, FALSE) :
        ns \in JobsNodes, js \in KeyedSeqs("j", JobsJobRecs, MaxJobRecs)}

InitJobs == sched \in JobsScenarios /\ PassStart /\ SlIdle /\ ApiIdle

SpecJobs == InitJobs /\ [][Next]_vars

Init == sched \in MembershipScenarios /\ PassStart /\ SlIdle /\ ApiIdle

Spec == Init /\ [][Next]_vars

----------------------------------------------------------------------------
(* 7. The serving layer: check_expire and the site-scoped queries (api.py)  *)

\* the site-scoped operations
SiteOps == {"get_full_data", "get_list", "get_data"}
Ops == SiteOps \cup {"get_user_jobs"}

\* line 67: the test of check_expire on a timestamp read at time t
ExpiredSwapped(t, timestamp) == timestamp - t > StaleAfter
Expired(t, timestamp) == t - timestamp > StaleAfter

\* check_expire(j, site): j.get of a missing key or field gives None, and
\* `not timestamp` also rejects a timestamp of 0
check_expire(doc, t) ==
    IF ~doc.present \/ doc.timestamp = 0 THEN [result |-> FALSE, msg |-> "invalid site"]
    ELSE IF Expired(t, doc.timestamp) THEN [result |-> FALSE, msg |-> "pbs info too old"]
    ELSE [result |-> TRUE, msg |-> ""]

\* time passes
Tick ==
    /\ ticks < MaxTicks
    /\ \E d \in TickSteps : now' = now + d
    /\ ticks' = ticks + 1
    /\ UNCHANGED <<cache, api_pc, api_req, api_checks, api_resp, sl_vars, pass_vars>>

\* a pass at site i publishes its document into the store of the serving
\* layer; its timestamp is the one the scheduler output carried (lines 286
\* and 311 of cache_pbs_data.py, no clock is read): 0, or behind the clock
\* by one of StampLags
SitePublishes ==
    /\ \E i \in 1..Len(Sites) : \E t \in {0} \cup {now - lag : lag \in StampLags} :
         cache' = [cache EXCEPT ![i] = DocAt(t)]
    /\ UNCHANGED <<now, ticks, api_pc, api_req, api_checks, api_resp, sl_vars, pass_vars>>

\* a request arrives: result = {'result': True}; get_user_jobs starts at the
\* first site of config['site']
ApiBegin ==
    /\ api_pc \in {"idle", "done"}
    /\ \E op \in Ops : \E i \in 1..Len(Sites) :
         /\ op = "get_user_jobs" => i = 1
         /\ api_req' = [op |-> op, site |-> i, read |-> Absent]
    /\ api_pc' = "check"
    /\ api_checks' = {}
    /\ api_resp' = NoResp
    /\ UNCHANGED <<now, ticks, cache, sl_vars, pass_vars>>

\* what a request returns when the store raises: the site-scoped handlers
\* catch it (lines 100-101), get_user_jobs does not and the request ends in
\* an internal server error; neither carries data
StoreRaised(op) ==
    [result |-> FALSE,
     msg |-> IF op = "get_user_jobs" THEN "internal server error" ELSE "backend failure",
     sources |-> {}]

\* line 63: timestamp = await j.get(f'pbs_{site}', '.timestamp'); the
\* handler is suspended until the store has answered, or the store raises
ApiReadStamp ==
    /\ api_pc = "check"
    /\ \E raises \in BOOLEAN :
         IF raises
         THEN /\ api_resp' = StoreRaised(api_req.op)
              /\ api_pc' = "done"
              /\ UNCHANGED api_req
         ELSE /\ api_req' = [api_req EXCEPT !.read = cache[api_req.site]]
              /\ api_pc' = "decide"
              /\ UNCHANGED api_resp
    /\ UNCHANGED <<now, ticks, cache, api_checks, sl_vars, pass_vars>>

\* lines 64-70 and 95-97: resumed, check_expire tests the timestamp it read
\* against the clock of this moment; if check['result'] is False: return check
ApiCheck ==
    /\ api_pc = "decide"
    /\ LET doc == api_req.read
           check == check_expire(doc, now)
       IN  /\ api_checks' = api_checks \cup
                  {[site |-> api_req.site, present |-> doc.present,
                    timestamp |-> doc.timestamp, at |-> now]}
           /\ IF check.result
              THEN /\ api_pc' = "get"
                   /\ UNCHANGED api_resp
              ELSE /\ api_pc' = "done"
                   /\ api_resp' = [result |-> FALSE, msg |-> check.msg,
                                   sources |-> {}]
    /\ UNCHANGED <<now, ticks, cache, api_req, sl_vars, pass_vars>>

\* data = await j.get(f'pbs_{site}', ...): the response takes data of the
\* site's document, or the store raises; get_user_jobs then goes on to the
\* next site (lines 221-229), the others return (lines 98-102)
ApiGet ==
    /\ api_pc = "get"
    /\ \E raises \in BOOLEAN :
         IF raises
         THEN /\ api_resp' = StoreRaised(api_req.op)
              /\ api_pc' = "done"
              /\ UNCHANGED api_req
         ELSE /\ api_resp' = [api_resp EXCEPT !.sources = @ \cup {api_req.site}]
              /\ IF api_req.op = "get_user_jobs" /\ api_req.site < Len(Sites)
                 THEN /\ api_req' = [api_req EXCEPT !.site = @ + 1]
                      /\ api_pc' = "check"
                 ELSE /\ api_pc' = "done"
                      /\ UNCHANGED api_req
    /\ UNCHANGED <<now, ticks, cache, api_checks, sl_vars, pass_vars>>

NextApi == Tick \/ SitePublishes \/ ApiBegin \/ ApiReadStamp \/ ApiCheck \/ ApiGet

InitApi ==
    /\ ApiIdle
    /\ SlIdle
    /\ sched = NoScenario
    /\ PassStart

SpecApi == InitApi /\ [][NextApi]_vars

----------------------------------------------------------------------------
\* C1: safety_loads terminates: it never removes more lines than the input
\* text had; after that many removals without a parse it has stopped.
C1_RetriesBounded == sl_pops <= Len(sl_input)

\* the characters the structured-path syntax of the store cannot take in a key
IllegalChars == {".", "[", "]"}
IsSanitized(key) == \A i \in 1..Len(key) : key[i] \notin IllegalChars
Returned == pc \in {"publish", "done", "exit_test"}

\* C2: once pbs_data_ex has returned, every key of the nodes section and of
\* the Jobs section of the document is free of '.', '[' and ']'.
C2_KeysSanitized ==
    Returned =>
        \A k \in DOMAIN data.nodes \cup DOMAIN data.Jobs : IsSanitized(k)

\* C3: when the publish loop ends, j.set has been called once on every
\* destination, in the order of conns, and a destination holds the new
\* document exactly if its own write succeeded; the others keep theirs.
C3_EveryDestinationAttempted ==
    pc = "done" =>
        /\ attempted = [i \in 1..NDest |-> i]
        /\ \A d \in 1..NDest :
               store[d] = IF sched.redis_up[d] THEN data ELSE PriorDoc

\* a failed write to the first destination was followed by a successful one
C3_Witness ==
    /\ pc = "done"
    /\ ~sched.redis_up[1]
    /\ sched.redis_up[NDest]
    /\ store[NDest] = data
    /\ store[1] = PriorDoc

\* C4: a destination holds the prior document or the complete new one; it
\* holds the new one only after every node and job record was aggregated,
\* and a pass that hangs, aborts or exits in test mode leaves all of them.
C4_NoPartialPublication ==
    \A d \in 1..NDest :
        /\ store[d] \in {PriorDoc, data}
        /\ store[d] # PriorDoc =>
               /\ pc \in {"publish", "done"}
               /\ node_iter = <<>> /\ job_iter = <<>>
               /\ data = Document(server_info, extra_queue_data, pbs_queues,
                                  pbs_nodes, pbs_jobs, sched.stamp)

\* the aggregation failed, or the fetch never finished, with nothing written
C4_Witness ==
    /\ pc \in {"aborted", "hung"}
    /\ sched.nodes # <<>>
    /\ \A d \in 1..NDest : sched.redis_up[d] /\ store[d] = PriorDoc

\* the node loop is about to visit a record naming an undeclared queue
VisitsUndeclared ==
    /\ pc = "loops"
    /\ node_iter # <<>>
    /\ \E i \in 1..Len(QueuesOf(Head(node_iter).rec)) :
           QueuesOf(Head(node_iter).rec)[i] \notin DOMAIN extra_queue_data

\* C8 as claimed: such a record does not abort the pass and changes neither
\* a queue's accumulator nor the cluster-wide one.
C8_UndeclaredSkippedEverywhere ==
    [][VisitsUndeclared =>
          /\ pc' = "loops"
          /\ node_iter' = Tail(node_iter)
          /\ extra_queue_data' = extra_queue_data
          /\ server_info' = server_info]_vars

\* C8 amended: such a record does not abort the pass, no accumulator appears
\* for the undeclared queue, only the declared queues the record lists can
\* change, and the cluster-wide counters do take the record.
C8_UndeclaredCountedAtCluster ==
    [][VisitsUndeclared =>
          LET rec == Head(node_iter).rec
              listed == {QueuesOf(rec)[i] : i \in 1..Len(QueuesOf(rec))}
          IN  /\ pc' = "loops"
              /\ node_iter' = Tail(node_iter)
              /\ DOMAIN extra_queue_data' = DOMAIN extra_queue_data
              /\ \A q \in DOMAIN extra_queue_data \ listed :
                     extra_queue_data'[q] = extra_queue_data[q]
              /\ \A q \in DOMAIN extra_queue_data \cap listed :
                     extra_queue_data'[q].counter["max_cores"]
                         = extra_queue_data[q].counter["max_cores"] + rec.ncpus
              /\ server_info'.counter["total_cores"]
                     = server_info.counter["total_cores"] + rec.ncpus
              /\ server_info'.counter["free_cores"]
                     = server_info.counter["free_cores"] + rec.ncpus - rec.a_ncpus]_vars

\* a record tagged with the undeclared queue was visited and counted
C8_Witness ==
    /\ pc = "loops"
    /\ node_data # <<>>
    /\ node_data.rec.queue = "qx"
    /\ server_info.counter["total_cores"] = node_data.rec.ncpus
    /\ \A q \in DOMAIN extra_queue_data : extra_queue_data[q].counter["max_cores"] = 0

\* the checks of the request that found no timestamp or too old a one
\* (timestamp: what line 63 read; at: the clock line 67 read)
FailedChecks ==
    {c \in api_checks : ~c.present \/ c.at - c.timestamp > StaleAfter}

\* C5: a response carries data of a site's document only if the request's
\* check of that site read a timestamp, at most 120 seconds old on the clock
\* the check then read; a request one of whose checks failed returns result
\* False and no data.
C5_FreshOrRejected ==
    api_pc = "done" =>
        /\ \A i \in api_resp.sources :
               \E c \in api_checks \ FailedChecks : c.site = i
        /\ FailedChecks # {} => ~api_resp.result /\ api_resp.sources = {}

\* a query was rejected on a document 121 seconds old, and one was answered
\* from a document exactly 120 seconds old
C5_Witness ==
    /\ api_pc = "done"
    /\ api_req.op \in SiteOps
    /\ ~api_resp.result
    /\ \E c \in api_checks : c.present /\ c.at - c.timestamp = StaleAfter + 1

C5_FreshWitness ==
    /\ api_pc = "done"
    /\ api_req.op = "get_user_jobs"
    /\ api_resp.result
    /\ api_resp.sources = {1, 2}
    /\ \E c \in api_checks : c.present /\ c.at - c.timestamp = StaleAfter

\* the internal nodes of a tree, and what a child brings
Capacity(tree, c, gpu) == IF gpu THEN tree[c].full_gpus ELSE tree[c].full_cores
FullyFree(tree, c, gpu) ==
    /\ Capacity(tree, c, gpu) # 0
    /\ SeqSum(free_cores_group(tree, c, gpu)) = Capacity(tree, c, gpu)
FullyFreeKids(tree, p, gpu) == {c \in ChildrenOf(tree, p) : FullyFree(tree, c, gpu)}

RECURSIVE CapacitySum(_, _, _)
CapacitySum(tree, kids, gpu) ==
    IF kids = {} THEN 0
    ELSE LET c == CHOOSE k \in kids : TRUE
         IN  Capacity(tree, c, gpu) + CapacitySum(tree, kids \ {c}, gpu)

RECURSIVE BlocksOfAll(_, _, _)
BlocksOfAll(tree, kids, gpu) ==
    IF kids = {} THEN <<>>
    ELSE LET c == CHOOSE k \in kids : TRUE
         IN  free_cores_group(tree, c, gpu) \o BlocksOfAll(tree, kids \ {c}, gpu)

Trees == {extra_queue_data[q].root : q \in DOMAIN extra_queue_data}

\* C6: below the root, the fully free children of a node are merged into one
\* entry, the sum of their capacities, next to the blocks of its other
\* children; at the root every child, fully free or not, keeps its own blocks.
C6_MergeBelowRootOnly ==
    \A tree \in Trees : \A p \in DOMAIN tree : \A gpu \in BOOLEAN :
        tree[p].type # "vnode" =>
            LET kids == ChildrenOf(tree, p)
                free == FullyFreeKids(tree, p, gpu)
            IN  free_cores_group(tree, p, gpu) =
                    IF tree[p].type = "cluster"
                    THEN SortedNonZeroDesc(BlocksOfAll(tree, kids, gpu))
                    ELSE SortedNonZeroDesc(<<CapacitySum(tree, free, gpu)>>
                                           \o BlocksOfAll(tree, kids \ free, gpu))

\* two fully free hosts of capacity 2 under one switch give the single entry 4
C6_Witness ==
    \E tree \in Trees :
        /\ <<"s1">> \in DOMAIN tree
        /\ Cardinality(FullyFreeKids(tree, <<"s1">>, FALSE)) = 2
        /\ \A c \in ChildrenOf(tree, <<"s1">>) : tree[c].full_cores = 2
        /\ free_cores_group(tree, <<"s1">>, FALSE) = <<4>>
        /\ free_cores_group(tree, RootPath, FALSE) = <<4>>

\* the same two hosts directly under the root give two entries
C6_RootWitness ==
    \E tree \in Trees :
        /\ Cardinality(FullyFreeKids(tree, RootPath, FALSE)) = 2
        /\ \A c \in ChildrenOf(tree, RootPath) : tree[c].type = "host"
        /\ free_cores_group(tree, RootPath, FALSE) = <<2, 2>>

Leaves(tree) == {p \in DOMAIN tree : tree[p].type = "vnode"}
FreeOfLeaf(tree, p, gpu) == IF gpu THEN tree[p].unused_gpus ELSE tree[p].unused_cores

\* C7 as claimed: a leaf returns [free] when free > 0 and [] when free = 0.
C7_LeafDropsZero ==
    \A tree \in Trees : \A p \in Leaves(tree) : \A gpu \in BOOLEAN :
        /\ FreeOfLeaf(tree, p, gpu) > 0 =>
               free_cores_group(tree, p, gpu) = <<FreeOfLeaf(tree, p, gpu)>>
        /\ FreeOfLeaf(tree, p, gpu) = 0 => free_cores_group(tree, p, gpu) = <<>>

\* C7 amended: a leaf returns the one-element list [free] also when free is
\* 0; the 0 is removed one level up, by the internal node that holds the leaf.
C7_LeafReturnsFree ==
    \A tree \in Trees : \A p \in Leaves(tree) : \A gpu \in BOOLEAN :
        /\ Len(free_cores_group(tree, p, gpu)) = 1
        /\ free_cores_group(tree, p, gpu)[1] = FreeOfLeaf(tree, p, gpu)
        /\ LET up == free_cores_group(tree, SubSeq(p, 1, Len(p) - 1), gpu)
           IN  \A i \in 1..Len(up) : up[i] # 0

\* a leaf with free cores and no free gpu is in the tree
C7_Witness ==
    \E tree \in Trees : \E p \in Leaves(tree) :
        /\ tree[p].unused_gpus = 0
        /\ tree[p].unused_cores > 0
        /\ free_cores_group(tree, p, TRUE) = <<0>>

\* C9: for the queue with two private online 16-core hosts, one idle and one
\* fully used, no running job and one queued job of 8 cores, the exported
\* statistics have free_cores_group = [16], waiting_cores = 8, load = 0.5.
C9_EndToEnd ==
    Returned =>
        LET st == data.Queue["qa"].statistics
        IN  /\ st.free_cores_group = <<16>>
            /\ st.counter["waiting_cores"] = 8
            /\ st.load = 50

\* the pass over that queue has returned its document
C9_Witness ==
    /\ pc = "done"
    /\ Len(sched.nodes) = 2
    /\ data.Queue["qa"].statistics.counter["max_cores"] = 32
    /\ data.Queue["qa"].statistics.counter["free_cores"] = 16
    /\ data.Queue["qa"].statistics.counter["waiting_jobs"] = 1
    /\ data.Queue["qa"].statistics.counter["running_jobs"] = 0
    /\ data.Queue["qa"].statistics.load = 50

\* C10: no step of a pass lowers a counter of the cluster-wide accumulator or
\* of a queue's accumulator.
C10_CountersNeverDecrease ==
    [][/\ \A k \in DOMAIN server_info.counter :
              server_info'.counter[k] >= server_info.counter[k]
       /\ \A q \in DOMAIN extra_queue_data \cap DOMAIN extra_queue_data' :
              \A k \in DOMAIN extra_queue_data[q].counter :
                  extra_queue_data'[q].counter[k] >= extra_queue_data[q].counter[k]]_vars

\* the node records the node loop has handed to add_vnode so far
InLoop == pc = "loops" \/ Returned
Added == SubSeq(sched.nodes, 1, Len(sched.nodes) - Len(node_iter))

\* the online nodes among them that are members of queue q
OnlineOf(q) ==
    {i \in 1..Len(Added) :
        /\ \E k \in 1..Len(QueuesOf(Added[i].rec)) : QueuesOf(Added[i].rec)[k] = q
        /\ ~IsOffline(Added[i].rec)}

\* the device path of a node: the identifiers it reports, from the switch down
NonEmpty(name) == name # ""
PathOf(i) ==
    LET d == Added[i].rec.devices
    IN  SelectSeq(<<d.ibswitch, d.host, d.socket, d.vnode>>, NonEmpty)

IsProperPrefix(a, b) == Len(a) < Len(b) /\ SubSeq(b, 1, Len(a)) = a

\* every online node of q reports a vnode, and no two have the same path
LeafPathsDistinct(q) ==
    \A i \in OnlineOf(q) :
        /\ Added[i].rec.devices.vnode # ""
        /\ \A j \in OnlineOf(q) \ {i} : PathOf(i) # PathOf(j)

\* no online node of q has a path that runs through the leaf of another
NoPathThroughLeaf(q) ==
    \A i, j \in OnlineOf(q) : ~IsProperPrefix(PathOf(i), PathOf(j))

\* the free gpus of the online nodes of q, among the first n added, that have
\* no free core
RECURSIVE FreeGpusOfBusy(_, _)
FreeGpusOfBusy(q, n) ==
    IF n = 0 THEN 0
    ELSE FreeGpusOfBusy(q, n - 1)
         + (IF n \in OnlineOf(q) /\ Added[n].rec.ncpus - Added[n].rec.a_ncpus = 0
            THEN Added[n].rec.ngpus - Added[n].rec.a_ngpus
            ELSE 0)

\* C11 as stated: after any number of add_vnode calls, if every online node
\* of a queue has a vnode identifier and a device path of its own, the
\* entries of free_cores_group sum to the queue's free_cores counter and the
\* entries of free_gpus_group to its free_gpus counter.
C11_FreeConserved ==
    InLoop =>
        \A q \in DOMAIN extra_queue_data :
            LeafPathsDistinct(q) =>
                LET e == QueueExport(extra_queue_data[q])
                IN  /\ SeqSum(e.free_cores_group) = e.counter["free_cores"]
                    /\ SeqSum(e.free_gpus_group) = e.counter["free_gpus"]

\* C11, amended: if moreover no path runs through the leaf of another node,
\* free_cores_group sums to the free_cores counter, and free_gpus_group sums
\* to the free_gpus counter less the free gpus of the nodes without a free
\* core, which add_vnode leaves out of the tree.
C11_FreeConservedWhereInserted ==
    InLoop =>
        \A q \in DOMAIN extra_queue_data :
            LeafPathsDistinct(q) /\ NoPathThroughLeaf(q) =>
                LET e == QueueExport(extra_queue_data[q])
                IN  /\ SeqSum(e.free_cores_group) = e.counter["free_cores"]
                    /\ SeqSum(e.free_gpus_group)
                           = e.counter["free_gpus"] - FreeGpusOfBusy(q, Len(Added))

\* three online nodes with paths of their own have been added to qa: two
\* idle vnodes of one host, merged below a switch, and one without a free
\* core whose free gpu is in the counter only
C11_Witness ==
    /\ InLoop
    /\ "qa" \in DOMAIN extra_queue_data
    /\ Cardinality(OnlineOf("qa")) = 3
    /\ LeafPathsDistinct("qa") /\ NoPathThroughLeaf("qa")
    /\ FreeGpusOfBusy("qa", Len(Added)) = 1
    /\ QueueExport(extra_queue_data["qa"]).free_cores_group = <<4>>
    /\ QueueExport(extra_queue_data["qa"]).counter["free_gpus"] = 3
\* the counters the job loop writes
JobCounterKeys ==
    {"using_cores", "using_gpus", "running_jobs",
     "waiting_cores", "waiting_gpus", "waiting_jobs"}

\* the sum of counter k over the queues qs
RECURSIVE QueueSum(_, _)
QueueSum(qs, k) ==
    IF qs = {} THEN 0
    ELSE LET q == CHOOSE x \in qs : TRUE
         IN  extra_queue_data[q].counter[k] + QueueSum(qs \ {q}, k)

AfterJobLoop == InLoop /\ node_iter = <<>> /\ job_iter = <<>>

\* cluster scope agrees with the declared queues, and every scope has one
\* job-size sample per running job
JobScopesAgree ==
    /\ \A k \in JobCounterKeys :
           server_info.counter[k] = QueueSum(DOMAIN extra_queue_data, k)
    /\ Len(server_info.job_size) = server_info.counter["running_jobs"]
    /\ \A q \in DOMAIN extra_queue_data :
           Len(extra_queue_data[q].job_size) = extra_queue_data[q].counter["running_jobs"]

\* the job loop takes a job of an undeclared queue, or one neither running
\* nor queued
SkippedJobStep ==
    /\ pc = "loops" /\ node_iter = <<>> /\ job_iter # <<>>
    /\ job_iter' = Tail(job_iter)
    /\ \/ Head(job_iter).rec.queue \notin DOMAIN extra_queue_data
       \/ Head(job_iter).rec.job_state \notin {"R", "Q"}

CountersUnchanged ==
    /\ server_info'.counter = server_info.counter
    /\ \A q \in DOMAIN extra_queue_data :
           extra_queue_data'[q].counter = extra_queue_data[q].counter

\* C12: after the job loop each job-derived counter of the cluster equals
\* the sum of that counter over the declared queues and each scope has as
\* many job-size samples as running jobs; a job of an undeclared queue, or in
\* a state other than running or queued, changes no counter at either scope.
C12_JobCountersAgree ==
    /\ [](AfterJobLoop => JobScopesAgree)
    /\ [][SkippedJobStep => CountersUnchanged]_vars

\* the job loop has ended after a running job of qa, a queued job of qb and
\* a job that was skipped
C12_Witness ==
    /\ AfterJobLoop
    /\ Len(sched.jobs) = 3
    /\ extra_queue_data["qa"].counter["running_jobs"] = 1
    /\ extra_queue_data["qb"].counter["waiting_jobs"] = 1
    /\ server_info.counter["using_cores"] = 2
    /\ server_info.counter["waiting_cores"] = 2
    /\ Len(server_info.job_size) = 1

====
